---- MODULE Spec2Model ----
(***************************************************************************)
(* kigadgets.board: the Board facade over a native pcbnew BOARD handle and *)
(* its FootprintList view (src/kigadgets/board.py).                        *)
(*                                                                         *)
(* The native board is the state behind Board._obj: four item collections  *)
(* (footprints, tracks and vias, zones, drawings), each a list in          *)
(* insertion order.  The Python layer adds Board._removed_elements and     *)
(* Board._fplist.  Every public method the properties below talk about is  *)
(* one action; the value it returns (or the exception it raises) is left   *)
(* in `ret`, and the native Add calls it issued are left in `calls`.       *)
(***************************************************************************)
EXTENDS Integers, Sequences, FiniteSets, Bags, TLC

\* ------------------------------------------------------------------ bounds

\* Native items that exist (on or off the board).
NumElements == 4
\* Most items the native board holds at once.
MaxBoard == 3
\* Most entries Board._removed_elements holds at once.
MaxRemoved == 2

Elements == 1..NumElements

\* ------------------------------------------------------- the native items

\* The native class of an item, as SWIGtype sees it.  Items cycle through
\* the classes so that every bound holds footprints and non-footprints.
KindTable == <<"Footprint", "Drawing", "Footprint", "Via", "Track", "Zone", "Footprint">>

KindOf(e) == KindTable[((e - 1) % Len(KindTable)) + 1]

\* The reference designator of a footprint ("" for the other classes).
\* Items 1 and 7 share a reference, as two footprints of a board may.
RefTable == <<"R1", "", "R2", "", "", "", "R1">>

RefOf(e) == RefTable[((e - 1) % Len(RefTable)) + 1]

\* References a caller asks for: two that footprints carry, one none does.
Refs == {"R1", "R2", "X9"}

\* item.geohash() of the wrapper of a native item.  Drawings stand for the
\* wrappers without a geohash method (the call raises AttributeError).
HashTable == <<5, 0, 3, 5, 3, 9, 4>>

HasGeohash(e) == KindOf(e) # "Drawing"

ItemGeohash(e) == HashTable[((e - 1) % Len(HashTable)) + 1]

\* ------------------------------------------------------------ return values

None == [cls |-> "None", obj |-> 0]

\* Footprint.wrap(native): a wrapper is identified by the native item it wraps.
Wrap(cls, e) == [cls |-> cls, obj |-> e]

Return(v) == [kind |-> "return", val |-> v]

Raise(exc) == [kind |-> "raise", val |-> [cls |-> exc, obj |-> 0]]

\* ---------------------------------------------------------- sequence helpers

Range(s) == {s[i] : i \in DOMAIN s}

RECURSIVE RemoveFirst(_, _)
RemoveFirst(s, e) ==
    IF s = <<>> THEN <<>>
    ELSE IF Head(s) = e THEN Tail(s)
    ELSE <<Head(s)>> \o RemoveFirst(Tail(s), e)

\* ------------------------------------------------------- the native board

\* Layer names a caller asks for: the silkscreen names before and after the
\* rename, a copper layer, and a name no board knows under either spelling.
LayerNames == {"F.Cu", "F.SilkS", "F.Silkscreen", "B.SilkS", "B.Silkscreen", "Margin"}

\* The layer names of a board written by a KiCad after the rename.
RenamedLayers == {"F.Cu", "F.Silkscreen", "B.Silkscreen", "Margin"}

\* The PCB_LAYER_ID the native board gives a name it knows.
LayerIdOf(name) ==
    CASE name = "F.Cu" -> 0
      [] name \in {"B.SilkS", "B.Silkscreen"} -> 36
      [] name \in {"F.SilkS", "F.Silkscreen"} -> 37
      [] OTHER -> 44

EmptyBoard ==
    [footprints |-> <<>>, tracks |-> <<>>, zones |-> <<>>, drawings |-> <<>>,
     layers |-> RenamedLayers]

\* The native collection an item of a class lives in.
Collection(e) ==
    CASE KindOf(e) = "Footprint" -> "footprints"
      [] KindOf(e) \in {"Track", "Via"} -> "tracks"
      [] KindOf(e) = "Zone" -> "zones"
      [] OTHER -> "drawings"

\* self._obj.Add(native): appended to the collection of its class.
NativeAdd(b, e) == [b EXCEPT ![Collection(e)] = Append(@, e)]

\* self._obj.Remove(native): taken out of the collection of its class; a
\* no-op for an item that is not on the board.
NativeRemove(b, e) == [b EXCEPT ![Collection(e)] = RemoveFirst(@, e)]

NativeItems(b) == b.footprints \o b.tracks \o b.zones \o b.drawings

NativeCount(b) == Len(NativeItems(b))

OnBoard(b) == Range(NativeItems(b))

\* self._obj.FindFootprintByReference(ref): the first footprint carrying the
\* reference, or a null handle (0).
RECURSIVE FirstWithRef(_, _)
FirstWithRef(fps, ref) ==
    IF fps = <<>> THEN 0
    ELSE IF RefOf(Head(fps)) = ref THEN Head(fps)
    ELSE FirstWithRef(Tail(fps), ref)

FindFootprintByReference(b, ref) == FirstWithRef(b.footprints, ref)

\* self._obj.GetFootprints()
GetFootprints(b) == b.footprints

\* self._obj.GetLayerID(name): -1 for a name the board does not know.
GetLayerID(b, name) == IF name \in b.layers THEN LayerIdOf(name) ELSE -1

\* ------------------------------------------------------------ FootprintList

FootprintList_getitem_none(b, key) ==
    LET found == FindFootprintByReference(b, key)
    IN  IF found # 0 THEN Return(Wrap("Footprint", found)) ELSE Return(None)

\* FootprintList.__getitem__(key)
FootprintList_getitem(b, key) ==
    LET found == FindFootprintByReference(b, key)
    IN  IF found # 0 THEN Return(Wrap("Footprint", found)) ELSE Raise("KeyError")

RECURSIVE WrapAll(_)
WrapAll(s) ==
    IF s = <<>> THEN <<>> ELSE <<Wrap("Footprint", Head(s))>> \o WrapAll(Tail(s))

\* FootprintList.__iter__(): the wrappers it yields, in order.
FootprintList_iter(b) == WrapAll(GetFootprints(b))

FootprintList_len_stale(b) == Len(GetFootprints(EmptyBoard))

\* FootprintList.__len__()
FootprintList_len(b) == Len(GetFootprints(b))

\* -------------------------------------------------------------------- Board

\* Board.footprints: the FootprintList made in __init__.
Board_footprints(fp) == Return([cls |-> "FootprintList", obj |-> fp])

\* Board.footprint_by_ref(ref): falls off the end (None) when nothing is found.
Board_footprint_by_ref(b, ref) ==
    LET found == FindFootprintByReference(b, ref)
    IN  IF found # 0 THEN Return(Wrap("Footprint", found)) ELSE Return(None)

\* Board.module_by_ref(ref): calls self.footprintByRef, a name Board does
\* not define, so the attribute lookup raises before anything is looked up.
Board_module_by_ref(b, ref) == Raise("AttributeError")

\* Board.vias, Board.tracks, Board.zones, Board.drawings: the native items
\* each yields (one wrapper per item).
Board_vias(b) == SelectSeq(b.tracks, LAMBDA t : KindOf(t) = "Via")

Board_tracks(b) == SelectSeq(b.tracks, LAMBDA t : KindOf(t) = "Track")

Board_zones(b) == SelectSeq(b.zones, LAMBDA t : KindOf(t) = "Zone")

Board_drawings(b) == b.drawings

\* Board.items: modules, vias, tracks, zones, drawings, in that order.
Board_items(b) ==
    GetFootprints(b) \o Board_vias(b) \o Board_tracks(b) \o Board_zones(b) \o Board_drawings(b)

\* The loop of Board.geohash: item.geohash() appended, AttributeError skipped.
RECURSIVE ItemHashes(_)
ItemHashes(items) ==
    IF items = <<>> THEN <<>>
    ELSE IF HasGeohash(Head(items))
         THEN <<ItemGeohash(Head(items))>> \o ItemHashes(Tail(items))
         ELSE ItemHashes(Tail(items))

\* list.sort() on integers.
RECURSIVE Insert(_, _)
Insert(x, s) ==
    IF s = <<>> THEN <<x>>
    ELSE IF x <= Head(s) THEN <<x>> \o s
    ELSE <<Head(s)>> \o Insert(x, Tail(s))

RECURSIVE Sorted(_)
Sorted(s) == IF s = <<>> THEN <<>> ELSE Insert(Head(s), Sorted(Tail(s)))

\* hash(tuple(...)): a fold over the elements in order, so that two tuples
\* with the same elements in another order hash differently.
RECURSIVE TupleHashFrom(_, _)
TupleHashFrom(acc, s) ==
    IF s = <<>> THEN acc
    ELSE TupleHashFrom((acc * 31 + Head(s) + 1) % 65536, Tail(s))

TupleHash(s) == TupleHashFrom(7, s)

Board_geohash_unsorted(b) == Return(TupleHash(ItemHashes(Board_items(b))))

\* Board.geohash()
Board_geohash(b) == Return(TupleHash(Sorted(ItemHashes(Board_items(b)))))

\* Board.get_layer_id(name)
Board_get_layer_id(b, name) ==
    LET lid == GetLayerID(b, name)
        lid2 ==
            IF lid = -1
            THEN CASE name = "F.SilkS" -> GetLayerID(b, "F.Silkscreen")
                   [] name = "F.Silkscreen" -> GetLayerID(b, "F.SilkS")
                   [] name = "B.SilkS" -> GetLayerID(b, "B.Silkscreen")
                   [] name = "B.Silkscreen" -> GetLayerID(b, "B.Silkscreen")
                   [] OTHER -> lid
            ELSE lid
    IN  IF lid2 = -1 THEN Raise("ValueError") ELSE Return(lid2)

RemovedAfterRemove_always(removed, e, permanent) == Append(removed, e)

\* Board.remove, the Python list: appended to unless permanent.
RemovedAfterRemove(removed, e, permanent) ==
    IF ~permanent THEN Append(removed, e) ELSE removed

\* The loop of Board.restore_removed: the native board after it, and the
\* native Add calls it issued.
RECURSIVE RestoreLoop(_, _)
RestoreLoop(b, els) ==
    IF els = <<>> THEN [board |-> b, calls |-> <<>>]
    ELSE LET r == RestoreLoop(NativeAdd(b, Head(els)), Tail(els))
         IN  [board |-> r.board, calls |-> <<Head(els)>> \o r.calls]

VARIABLES
    obj,               \* Board._obj: the native board
    removed_elements,  \* Board._removed_elements
    fplist,            \* Board._fplist: the identity of the FootprintList
    op,                \* the method that ran last
    arg,               \* its argument
    ret,               \* what it returned or raised
    calls,             \* the native Add calls it issued, in order
    fpBag,             \* history: footprints added minus footprints taken off, per item
    softLog,           \* history: items removed with permanent=False since the last restore_removed
    hardSet,           \* history: items removed with permanent=True since the last restore_removed
    lastSoft,          \* history: softLog as the restore_removed that ran last found it
    lastHard           \* history: hardSet as the restore_removed that ran last found it

vars == <<obj, removed_elements, fplist, op, arg, ret, calls, fpBag, softLog, hardSet, lastSoft, lastHard>>

prog == <<obj, removed_elements, fplist>>

removals == <<softLog, hardSet, lastSoft, lastHard>>

hist == <<fpBag, softLog, hardSet, lastSoft, lastHard>>

\* The object id Board.__init__ gives the FootprintList it constructs.
FplistId == 1

\* Board.__init__ on a native board that holds nothing yet.
InitOn(native) ==
    /\ obj = native
    /\ removed_elements = <<>>
    /\ fplist = FplistId
    /\ op = "init"
    /\ arg = None
    /\ ret = Return(None)
    /\ calls = <<>>
    /\ fpBag = [e \in Elements |-> 0]
    /\ softLog = <<>>
    /\ hardSet = {}
    /\ lastSoft = <<>>
    /\ lastHard = {}

Init == InitOn(EmptyBoard)

\* ------------------------------------------------- history of the footprints

FpBagAdd(bag, e) ==
    IF KindOf(e) = "Footprint" THEN [bag EXCEPT ![e] = @ + 1] ELSE bag

FpBagRemove(bag, e) ==
    IF KindOf(e) = "Footprint" /\ bag[e] > 0 THEN [bag EXCEPT ![e] = @ - 1] ELSE bag

RECURSIVE FpBagAddAll(_, _)
FpBagAddAll(bag, els) ==
    IF els = <<>> THEN bag ELSE FpBagAddAll(FpBagAdd(bag, Head(els)), Tail(els))

\* ------------------------------------------------------------------ actions

\* Board.add(obj), for an item the board does not hold yet.
Board_add(e) ==
    /\ e \notin OnBoard(obj)
    /\ NativeCount(obj) < MaxBoard
    /\ obj' = NativeAdd(obj, e)
    /\ op' = "add"
    /\ arg' = None
    /\ ret' = Return(Wrap(KindOf(e), e))
    /\ calls' = <<e>>
    /\ fpBag' = FpBagAdd(fpBag, e)
    /\ UNCHANGED <<removed_elements, fplist>>

\* Board.remove(element, permanent), for an element the board holds (the
\* callers take it from the board's own iterators; what the native Remove
\* does with an item the board does not hold is not this layer's to say).
Board_remove(e, permanent) ==
    /\ e \in OnBoard(obj)
    /\ permanent \/ Len(removed_elements) < MaxRemoved
    /\ removed_elements' = RemovedAfterRemove(removed_elements, e, permanent)
    /\ obj' = NativeRemove(obj, e)
    /\ op' = "remove"
    /\ arg' = None
    /\ ret' = Return(None)
    /\ calls' = <<>>
    /\ fpBag' = FpBagRemove(fpBag, e)
    /\ UNCHANGED fplist

\* Board.restore_removed()
Board_restore_removed ==
    /\ NativeCount(obj) + Len(removed_elements) <= MaxBoard
    /\ LET r == RestoreLoop(obj, removed_elements)
       IN  /\ obj' = r.board
           /\ calls' = r.calls
    /\ removed_elements' = <<>>
    /\ op' = "restore_removed"
    /\ arg' = None
    /\ ret' = Return(None)
    /\ fpBag' = FpBagAddAll(fpBag, removed_elements)
    /\ UNCHANGED fplist

\* A method that only reads: its name, argument and result are recorded.
Query(name, a, r) ==
    /\ op' = name
    /\ arg' = a
    /\ ret' = r
    /\ calls' = <<>>
    /\ UNCHANGED <<prog, hist>>

Add == \E e \in Elements : Board_add(e) /\ UNCHANGED removals

Remove ==
    \E e \in Elements, permanent \in BOOLEAN :
        Board_remove(e, permanent) /\ UNCHANGED removals

RestoreRemoved == Board_restore_removed /\ UNCHANGED removals

Footprints == Query("footprints", None, Board_footprints(fplist))

FootprintByRef == \E ref \in Refs : Query("footprint_by_ref", ref, Board_footprint_by_ref(obj, ref))

ModuleByRef == \E ref \in Refs : Query("module_by_ref", ref, Board_module_by_ref(obj, ref))

GetItem == \E ref \in Refs : Query("getitem", ref, FootprintList_getitem(obj, ref))

LenFootprints == Query("len", None, Return(FootprintList_len(obj)))

IterFootprints == Query("iter", None, Return(FootprintList_iter(obj)))

Geohash == Query("geohash", None, Board_geohash(obj))

GetLayerId == \E name \in LayerNames : Query("get_layer_id", name, Board_get_layer_id(obj, name))

\* The board and its footprint view.
Next ==
    \/ Add
    \/ Remove
    \/ RestoreRemoved
    \/ Footprints
    \/ FootprintByRef
    \/ ModuleByRef
    \/ GetItem
    \/ LenFootprints
    \/ IterFootprints
    \/ Geohash

Spec == Init /\ [][Next]_vars

\* The removals and the restore alone, with the history of the removals kept.
AddLogged ==
    \E e \in Elements :
        /\ Board_add(e)
        /\ lastSoft' = <<>>
        /\ lastHard' = {}
        /\ UNCHANGED <<softLog, hardSet>>

RemoveLogged ==
    \E e \in Elements, permanent \in BOOLEAN :
        /\ Board_remove(e, permanent)
        /\ softLog' = IF permanent THEN softLog ELSE Append(softLog, e)
        /\ hardSet' = IF permanent THEN hardSet \cup {e} ELSE hardSet
        /\ lastSoft' = <<>>
        /\ lastHard' = {}

RestoreLogged ==
    /\ Board_restore_removed
    /\ lastSoft' = softLog
    /\ lastHard' = hardSet
    /\ softLog' = <<>>
    /\ hardSet' = {}

NextRemoval ==
    \/ AddLogged
    \/ RemoveLogged
    \/ RestoreLogged

SpecRemoval == Init /\ [][NextRemoval]_vars

\* Board.get_layer_id on the boards of every KiCad: each set of known names.
InitLayers == \E known \in SUBSET LayerNames : InitOn([EmptyBoard EXCEPT !.layers = known])

NextLayers ==
    \/ GetLayerId

SpecLayers == InitLayers /\ [][NextLayers]_vars

\* ------------------------------------------------------------- properties

\* C1 as stated: restore_removed issues a native Add for exactly the items
\* removed with permanent=False since the restore before it, for none of the
\* items removed with permanent=True, and leaves _removed_elements empty.
C1_RestoreExactlySoftNoneHard ==
    op = "restore_removed" =>
        /\ calls = lastSoft
        /\ \A e \in Range(lastSoft) : e \in OnBoard(obj)
        /\ \A e \in lastHard : e \notin Range(calls)
        /\ removed_elements = <<>>

\* C1 (amended): restore_removed issues one native Add, in removal order,
\* for each removal with permanent=False since the restore before it, so
\* that those items are on the board again; an item removed only with
\* permanent=True gets no Add; _removed_elements is left empty, and a second
\* restore_removed right after issues no Add and leaves the board as it is.
C1_RestoreSoftRemovals ==
    op = "restore_removed" =>
        /\ calls = lastSoft
        /\ \A e \in Range(lastSoft) : e \in OnBoard(obj)
        /\ \A e \in lastHard \ Range(lastSoft) : e \notin Range(calls)
        /\ removed_elements = <<>>
        /\ RestoreLoop(obj, removed_elements) = [board |-> obj, calls |-> <<>>]

\* Two soft removals and a permanent one of a third item, then the restore.
C1_Witness ==
    /\ op = "restore_removed"
    /\ Len(calls) = 2
    /\ lastHard # {}
    /\ lastHard \cap Range(calls) = {}
    /\ Range(calls) \subseteq OnBoard(obj)

\* The other spelling of a silkscreen layer name ("" for every other name).
SilkCounterpart(name) ==
    CASE name = "F.SilkS" -> "F.Silkscreen"
      [] name = "F.Silkscreen" -> "F.SilkS"
      [] name = "B.SilkS" -> "B.Silkscreen"
      [] name = "B.Silkscreen" -> "B.SilkS"
      [] OTHER -> ""

\* C2: for each silkscreen name, when the board does not know the name asked
\* for but knows the other spelling, get_layer_id returns the id of the other
\* spelling.
C2_FallbackBothWays ==
    (/\ op = "get_layer_id"
     /\ SilkCounterpart(arg) # ""
     /\ arg \notin obj.layers
     /\ SilkCounterpart(arg) \in obj.layers)
        => /\ ret.kind = "return"
           /\ ret.val = LayerIdOf(SilkCounterpart(arg))

\* C3: get_layer_id either returns an id (never -1) that the board reports
\* for the name or for its silkscreen counterpart, or raises ValueError, and
\* it raises when neither of the two is known to the board.
C3_IdOrValueError ==
    op = "get_layer_id" =>
        LET known == obj.layers \cap {arg, SilkCounterpart(arg)}
        IN  \/ /\ ret.kind = "return"
               /\ ret.val # -1
               /\ ret.val \in {LayerIdOf(n) : n \in known}
            \/ /\ ret.kind = "raise"
               /\ ret.val.cls = "ValueError"
               /\ known = {}

\* C4: module_by_ref(ref) returns what footprint_by_ref(ref) returns.
C4_ModuleByRefIsAlias ==
    op = "module_by_ref" => ret = Board_footprint_by_ref(obj, arg)

\* The footprints on a board that carry a reference.
Carriers(b, ref) == {e \in Range(b.footprints) : RefOf(e) = ref}

C5_AgreeOn(b, ref) ==
    LET a == Board_footprint_by_ref(b, ref)
        g == FootprintList_getitem(b, ref)
    IN  /\ a.kind = "return"
        /\ (a.val # None) <=> (g.kind = "return")
        /\ g.kind = "return" =>
               /\ g.val = a.val
               /\ g.val.cls = "Footprint"
               /\ g.val.obj \in Carriers(b, ref)
        /\ Carriers(b, ref) = {} => (a = Return(None) /\ g = Raise("KeyError"))
        /\ Carriers(b, ref) # {} => g.kind = "return"

\* C5: footprint_by_ref(ref) returns a wrapper exactly when footprints[ref]
\* returns a wrapper, and then of the same native footprint, one that carries
\* the reference; when no footprint carries it, footprint_by_ref returns None
\* and footprints[ref] raises KeyError; neither lookup changes the board.
\* Stated of every step that is one of the two lookups, on the board and
\* the reference of that step.
C5_LookupsAgree ==
    [][op' \in {"footprint_by_ref", "getitem"} =>
           /\ UNCHANGED <<obj, removed_elements, fplist>>
           /\ C5_AgreeOn(obj', arg')
           /\ ret' = IF op' = "getitem" THEN FootprintList_getitem(obj', arg')
                     ELSE Board_footprint_by_ref(obj', arg')]_vars

\* A footprint found by both lookups while another reference is missing.
C5_Witness ==
    /\ op = "getitem"
    /\ ret = Return(Wrap("Footprint", 3))
    /\ Board_footprint_by_ref(obj, arg) = ret
    /\ Board_footprint_by_ref(obj, "X9") = Return(None)
    /\ FootprintList_getitem(obj, "X9") = Raise("KeyError")

RECURSIVE SumOver(_, _)
SumOver(f, S) ==
    IF S = {} THEN 0
    ELSE LET x == CHOOSE y \in S : TRUE IN f[x] + SumOver(f, S \ {x})

Occurrences(s, x) == Cardinality({i \in DOMAIN s : s[i] = x})

\* C6: after any additions and removals, len(board.footprints) is the number
\* of footprints now on the native board, iterating board.footprints yields
\* one wrapper for each of them and nothing else, and Board.footprints is the
\* FootprintList made by __init__.
C6_LiveView ==
    LET n == SumOver(fpBag, Elements)
        it == FootprintList_iter(obj)
    IN  /\ FootprintList_len(obj) = n
        /\ Len(it) = n
        /\ \A e \in Elements : Occurrences(it, Wrap("Footprint", e)) = fpBag[e]
        /\ Board_footprints(fplist) = Return([cls |-> "FootprintList", obj |-> FplistId])
        /\ op = "len" => ret = Return(n)
        /\ op = "iter" => Len(ret.val) = n
        /\ op = "footprints" => ret.val.obj = FplistId

\* Two footprints added, one of them removed again, then len().
C6_Witness ==
    /\ op = "len"
    /\ ret = Return(1)
    /\ removed_elements # <<>>
    /\ KindOf(removed_elements[1]) = "Footprint"
    /\ SumOver(fpBag, Elements) = 1

\* The geohash values items can have, and how many items of a board have each.
HashValues == {ItemGeohash(e) : e \in 1..Len(HashTable)}

HashBagOf(b) ==
    LET items == NativeItems(b)
    IN  [h \in HashValues |->
            Cardinality({i \in DOMAIN items :
                            HasGeohash(items[i]) /\ ItemGeohash(items[i]) = h})]

RECURSIVE BoardOf(_)
BoardOf(s) == IF s = <<>> THEN EmptyBoard ELSE NativeAdd(BoardOf(Tail(s)), Head(s))

\* Every board of up to MaxBoard items, each with its hash values and geohash.
OtherBoards == {BoardOf(s) : s \in UNION {[1..n -> Elements] : n \in 0..MaxBoard}}

GeoTable == [b \in OtherBoards |-> [bag |-> HashBagOf(b), geohash |-> Board_geohash(b)]]

\* C7: Board.geohash returns (never raises), and returns the same value as
\* on every other board whose items with a geohash method have the same
\* multiset of hash values, whatever the order of the items and whatever
\* items without a geohash method either board holds.
C7_GeohashOfMultiset ==
    op = "geohash" =>
        /\ ret.kind = "return"
        /\ LET bag == HashBagOf(obj)
           IN  \A b \in OtherBoards : GeoTable[b].bag = bag => GeoTable[b].geohash = ret

\* Two footprints held in descending order of hash, beside a drawing
\* (which has no geohash method).
C7_Witness ==
    /\ op = "geohash"
    /\ obj.footprints = <<1, 3>>
    /\ obj.drawings = <<2>>
    /\ ItemHashes(Board_items(obj)) = <<5, 3>>
    /\ ret = Board_geohash(BoardOf(<<1, 3>>))

====
